---- MODULE Spec2Model ----
(***************************************************************************)
(* Model of "c++ 4.cpp": LabThreadSafeData, a record of integer fields     *)
(* with one std::shared_mutex per field and atomic operation counters,     *)
(* and executeFile, which replays a workload file against it.  main runs   *)
(* one, two or three threads, all replaying the same file against one      *)
(* shared LabThreadSafeData.                                               *)
(*                                                                         *)
(* Every statement of readField, writeField and operator std::string is    *)
(* one step of the thread that executes it; the steps of different         *)
(* threads interleave freely.                                              *)
(***************************************************************************)
EXTENDS Integers, Sequences, FiniteSets, TLC

\* ---- bounds of the model ----
MaxFields == 3      \* stores of 0..MaxFields fields are constructed
MaxLen == 3         \* workload files of 0..MaxLen lines
MaxVal == 2         \* write lines carry a value in 1..MaxVal
MaxWork == 6        \* threads * lines of a run is at most MaxWork
MaxFairLen == 2     \* files of 0..MaxFairLen lines in the runs checked for completion

\* main starts 1, 2 and 3 threads on the same data
MaxThreads == 3

VARIABLES
    nfields,        \* m, the argument of the constructor (fields.size())
    nthreads,       \* number of threads main started on this data
    file,           \* the lines of the workload file
    fields,         \* std::vector<int> fields
    field_mutexes,  \* std::vector<std::shared_mutex>: its holders
    read_count,     \* std::vector<std::atomic<size_t>>
    write_count,    \* std::vector<std::atomic<size_t>>
    string_count,   \* std::atomic<size_t>
    total_ops,      \* std::atomic<size_t>
    pc,             \* per thread: the statement it executes next
    pos,            \* per thread: the next line of its own ifstream
    idx,            \* per thread: the index argument of the call in progress
    val,            \* per thread: the value argument of writeField
    i,              \* per thread: the loop variable of operator std::string
    oss,            \* per thread: the text collected by operator std::string
    ret,            \* per thread: the value readField is about to return
    written,        \* history: per field, the values writeField stored so far
    lastw,          \* history: per field, the argument of the latest store
    fresh,          \* history: per thread, see readAfterWrite
    hist,           \* history: per thread, the field vectors since its
                    \* operator std::string call started
    fin_open,       \* whether std::ifstream fin(filename) opens the file
    oob,            \* history: storage outside the vectors has been accessed
    report,         \* what printStats has printed
    gen             \* generateFile: its arguments, locals and stage

store == <<fields, field_mutexes, read_count, write_count, string_count, total_ops>>
locals == <<pc, pos, idx, val, i, oss, ret>>
history == <<written, lastw, fresh, hist>>
run == <<nfields, nthreads, file, fin_open, oob, report, gen>>
vars == <<run, store, locals, history>>

Threads == 1..nthreads
Indices == 0..(nfields - 1)

\* ---- the workload file (section 6 of the specification, executeFile) ----
\* a line whose first token is none of read, write, string is "other"
\* it, vt: what the index and the value token of the line are: a number
\* ("num"), no token at all ("missing") or a token that is no number ("text")
Tokens(c, it, x, vt, v) == [cmd |-> c, it |-> it, idx |-> x, vt |-> vt, val |-> v]
Line(c, x, v) == Tokens(c, "num", x, "num", v)

Lines(n) ==
    {Line("read", x, 0) : x \in 0..(n - 1)}
        \cup {Line("write", x, v) : x \in 0..(n - 1), v \in 1..MaxVal}
        \cup {Line("string", 0, 0), Line("other", 0, 0)}

Files(n, len) == UNION {[1..k -> Lines(n)] : k \in 0..len}

\* ---- std::shared_mutex ----
Unlocked == [excl |-> 0, shared |-> {}]

\* lock_shared() returns once no thread has exclusive ownership
CanLockSharedAlone(mx, x) == mx[x].excl = 0 /\ mx[x].shared = {}
CanLockShared(mx, x) == mx[x].excl = 0

\* lock() returns once no thread has any ownership
CanLockIgnoringReaders(mx, x) == mx[x].excl = 0
CanLockGlobal(mx, x) ==
    \A j \in DOMAIN mx : mx[j].excl = 0 /\ mx[j].shared = {}
CanLock(mx, x) == mx[x].excl = 0 /\ mx[x].shared = {}

LockShared(mx, x, w) == [mx EXCEPT ![x].shared = @ \cup {w}]
UnlockSharedKeepsOwner(mx, x, w) == mx
UnlockShared(mx, x, w) == [mx EXCEPT ![x].shared = @ \ {w}]
Lock(mx, x, w) == [mx EXCEPT ![x].excl = w]
UnlockKeepsOwner(mx, x, w) == mx
Unlock(mx, x, w) == [mx EXCEPT ![x].excl = 0]

\* ---- std::vector<int> ----
\* return fields[index];
ElementZero(f, x) == f[0]
Element(f, x) == f[x]

\* fields[index] = value;
AssignAdd(f, x, v) == [f EXCEPT ![x] = @ + v]
AssignOnce(f, x, v) == [f EXCEPT ![x] = IF @ = 0 THEN v ELSE @]
AssignAll(f, x, v) == [j \in DOMAIN f |-> v]
Assign(f, x, v) == [f EXCEPT ![x] = v]

\* ---- construction (LabThreadSafeData(m), main) ----
\* no report printed yet
NoReport == [printed |-> FALSE]

\* generateFile is not running
GenIdle == [stage |-> "idle"]

\* the data after LabThreadSafeData(m) and the threads at their start
Constructed ==
    /\ fields = [x \in Indices |-> 0]
    /\ field_mutexes = [x \in Indices |-> Unlocked]
    /\ read_count = [x \in Indices |-> 0]
    /\ write_count = [x \in Indices |-> 0]
    /\ string_count = 0
    /\ total_ops = 0
    /\ pc = [w \in Threads |-> "getline"]
    /\ pos = [w \in Threads |-> 1]
    /\ idx = [w \in Threads |-> 0]
    /\ val = [w \in Threads |-> 0]
    /\ i = [w \in Threads |-> 0]
    /\ oss = [w \in Threads |-> ""]
    /\ ret = [w \in Threads |-> 0]
    /\ written = [x \in Indices |-> {}]
    /\ lastw = [x \in Indices |-> 0]
    /\ fresh = [w \in Threads |-> FALSE]
    /\ hist = [w \in Threads |-> {}]
    /\ oob = FALSE
    /\ report = NoReport

Init ==
    /\ nfields \in 0..MaxFields
    /\ nthreads \in 1..MaxThreads
    /\ file \in Files(nfields, MaxLen)
    /\ nthreads * Len(file) <= MaxWork
    /\ fin_open = TRUE
    /\ gen = GenIdle
    /\ Constructed

Goto(w, label) == pc' = [pc EXCEPT ![w] = label]

\* a write to field x that has stored its value and not yet returned
Storing(x) == \E u \in Threads : pc[u] = "w_unlock" /\ idx[u] = x

\* ---- iss >> n for an int n ----
\* good: the stream has not failed before.  On a failed stream, and when no
\* token is left, the sentry fails: nothing is extracted and n stays as it
\* was (set = FALSE).  A token that is no number stores 0 and fails the stream.
Extract(good, tok, x) ==
    IF ~good \/ tok = "missing" THEN [good |-> FALSE, set |-> FALSE, value |-> 0]
    ELSE IF tok = "num" THEN [good |-> TRUE, set |-> TRUE, value |-> x]
    ELSE [good |-> FALSE, set |-> TRUE, value |-> 0]

\* what an int that was never assigned (int idx, val;) may hold, up to hi
Uninitialized(hi) == (-1)..hi

\* ---- executeFile: while (std::getline(fin, line)) { dispatch } ----
\* a call with an index outside the vectors starts at "r_oob" / "w_oob"
executeFile(w) ==
    /\ pc[w] = "getline"
    /\ UNCHANGED <<run, store, ret, written, lastw>>
    /\ IF ~fin_open \/ pos[w] > Len(file)
       THEN /\ Goto(w, "done")
            /\ UNCHANGED <<pos, idx, val, i, oss, fresh, hist>>
       ELSE LET line == file[pos[w]]
                index == Extract(TRUE, line.it, line.idx)
                value == Extract(index.good, line.vt, line.val)
            IN
            /\ pos' = [pos EXCEPT ![w] = @ + 1]
            /\ CASE line.cmd = "write" ->
                      /\ \E x \in (IF index.set THEN {index.value}
                                   ELSE Uninitialized(nfields)) :
                            /\ Goto(w, IF x \in Indices THEN "w_lock" ELSE "w_oob")
                            /\ idx' = [idx EXCEPT ![w] = x]
                      /\ \E v \in (IF value.set THEN {value.value}
                                   ELSE Uninitialized(MaxVal)) :
                            val' = [val EXCEPT ![w] = v]
                      /\ UNCHANGED <<i, oss, fresh, hist>>
                 [] line.cmd = "read" ->
                      /\ \E x \in (IF index.set THEN {index.value}
                                   ELSE Uninitialized(nfields)) :
                            /\ Goto(w, IF x \in Indices THEN "r_lock" ELSE "r_oob")
                            /\ idx' = [idx EXCEPT ![w] = x]
                            /\ fresh' = [fresh EXCEPT ![w] =
                                            /\ x \in Indices
                                            /\ written[x] # {}
                                            /\ ~Storing(x)]
                      /\ UNCHANGED <<val, i, oss, hist>>
                 [] line.cmd = "string" ->
                      /\ Goto(w, "s_loop")
                      /\ i' = [i EXCEPT ![w] = 0]
                      /\ oss' = [oss EXCEPT ![w] = ""]
                      /\ hist' = [hist EXCEPT ![w] = {fields}]
                      /\ UNCHANGED <<idx, val, fresh>>
                 [] OTHER ->
                      /\ Goto(w, "getline")
                      /\ UNCHANGED <<idx, val, i, oss, fresh, hist>>

\* ---- int readField(size_t index) ----
readField_lock(w) ==
    /\ pc[w] = "r_lock"
    /\ CanLockShared(field_mutexes, idx[w])
    /\ field_mutexes' = LockShared(field_mutexes, idx[w], w)
    /\ Goto(w, "r_count")
    /\ UNCHANGED <<run, fields, read_count, write_count,
                   string_count, total_ops, pos, idx, val, i, oss, ret, history>>

readField_countTotal(w) ==
    /\ pc[w] = "r_count"
    /\ total_ops' = total_ops + 1
    /\ Goto(w, "r_total")
    /\ UNCHANGED <<run, fields, field_mutexes, read_count, write_count,
                   string_count, pos, idx, val, i, oss, ret, history>>

readField_count(w) ==
    /\ pc[w] = "r_count"
    /\ read_count' = [read_count EXCEPT ![idx[w]] = @ + 1]
    /\ Goto(w, "r_total")
    /\ UNCHANGED <<run, fields, field_mutexes, write_count,
                   string_count, total_ops, pos, idx, val, i, oss, ret, history>>

readField_total(w) ==
    /\ pc[w] = "r_total"
    /\ total_ops' = total_ops + 1
    /\ Goto(w, "r_get")
    /\ UNCHANGED <<run, fields, field_mutexes, read_count,
                   write_count, string_count, pos, idx, val, i, oss, ret, history>>

readField_get(w) ==
    /\ pc[w] = "r_get"
    /\ ret' = [ret EXCEPT ![w] = Element(fields, idx[w])]
    /\ Goto(w, "r_unlock")
    /\ UNCHANGED <<run, store, pos, idx, val, i, oss, history>>

readField_unlock(w) ==
    /\ pc[w] = "r_unlock"
    /\ field_mutexes' = UnlockShared(field_mutexes, idx[w], w)
    /\ Goto(w, "getline")
    /\ idx' = [idx EXCEPT ![w] = 0]
    /\ ret' = [ret EXCEPT ![w] = 0]
    /\ fresh' = [fresh EXCEPT ![w] = FALSE]
    /\ UNCHANGED <<run, fields, read_count, write_count,
                   string_count, total_ops, pos, val, i, oss, written, lastw, hist>>

\* ---- void writeField(size_t index, int value) ----
writeField_lock(w) ==
    /\ pc[w] = "w_lock"
    /\ CanLock(field_mutexes, idx[w])
    /\ field_mutexes' = Lock(field_mutexes, idx[w], w)
    /\ Goto(w, "w_count")
    /\ UNCHANGED <<run, fields, read_count, write_count,
                   string_count, total_ops, pos, idx, val, i, oss, ret, history>>

writeField_countAsRead(w) ==
    /\ pc[w] = "w_count"
    /\ read_count' = [read_count EXCEPT ![idx[w]] = @ + 1]
    /\ Goto(w, "w_total")
    /\ UNCHANGED <<run, fields, field_mutexes, write_count,
                   string_count, total_ops, pos, idx, val, i, oss, ret, history>>

writeField_count(w) ==
    /\ pc[w] = "w_count"
    /\ write_count' = [write_count EXCEPT ![idx[w]] = @ + 1]
    /\ Goto(w, "w_total")
    /\ UNCHANGED <<run, fields, field_mutexes, read_count,
                   string_count, total_ops, pos, idx, val, i, oss, ret, history>>

writeField_total(w) ==
    /\ pc[w] = "w_total"
    /\ total_ops' = total_ops + 1
    /\ Goto(w, "w_set")
    /\ UNCHANGED <<run, fields, field_mutexes, read_count,
                   write_count, string_count, pos, idx, val, i, oss, ret, history>>

writeField_set(w) ==
    /\ pc[w] = "w_set"
    /\ fields' = Assign(fields, idx[w], val[w])
    /\ Goto(w, "w_unlock")
    /\ written' = [written EXCEPT ![idx[w]] = @ \cup {val[w]}]
    /\ lastw' = [lastw EXCEPT ![idx[w]] = val[w]]
    /\ fresh' = [u \in Threads |->
                    IF pc[u] \in {"r_lock", "r_count", "r_total", "r_get"}
                       /\ idx[u] = idx[w]
                    THEN FALSE ELSE fresh[u]]
    /\ hist' = [u \in Threads |->
                    IF hist[u] = {} THEN {} ELSE hist[u] \cup {fields'}]
    /\ UNCHANGED <<run, field_mutexes, read_count, write_count,
                   string_count, total_ops, pos, idx, val, i, oss, ret>>

writeField_unlock(w) ==
    /\ pc[w] = "w_unlock"
    /\ field_mutexes' = Unlock(field_mutexes, idx[w], w)
    /\ Goto(w, "getline")
    /\ idx' = [idx EXCEPT ![w] = 0]
    /\ val' = [val EXCEPT ![w] = 0]
    /\ UNCHANGED <<run, fields, read_count, write_count,
                   string_count, total_ops, pos, i, oss, ret, history>>

\* ---- operator std::string() ----
\* for (size_t i = 0; i < fields.size(); ++i) { std::shared_lock lock(...);
toString_loop(w) ==
    /\ pc[w] = "s_loop"
    /\ IF i[w] < nfields
       THEN /\ CanLockShared(field_mutexes, i[w])
            /\ field_mutexes' = LockShared(field_mutexes, i[w], w)
            /\ Goto(w, "s_get")
       ELSE /\ Goto(w, "s_count")
            /\ UNCHANGED field_mutexes
    /\ UNCHANGED <<run, fields, read_count, write_count,
                   string_count, total_ops, pos, idx, val, i, oss, ret, history>>

toString_getTrailing(w) ==
    /\ pc[w] = "s_get"
    /\ oss' = [oss EXCEPT ![w] = @ \o ToString(Element(fields, i[w])) \o ", "]
    /\ Goto(w, "s_unlock")
    /\ UNCHANGED <<run, store, pos, idx, val, i, ret, history>>

\* oss << fields[i]; if (i != fields.size() - 1) oss << ", ";
toString_get(w) ==
    /\ pc[w] = "s_get"
    /\ oss' = [oss EXCEPT ![w] =
                  @ \o ToString(Element(fields, i[w]))
                    \o (IF i[w] # nfields - 1 THEN ", " ELSE "")]
    /\ Goto(w, "s_unlock")
    /\ UNCHANGED <<run, store, pos, idx, val, i, ret, history>>

\* } the lock of this iteration is destroyed, then ++i
toString_unlock(w) ==
    /\ pc[w] = "s_unlock"
    /\ field_mutexes' = UnlockShared(field_mutexes, i[w], w)
    /\ i' = [i EXCEPT ![w] = @ + 1]
    /\ Goto(w, "s_loop")
    /\ UNCHANGED <<run, fields, read_count, write_count,
                   string_count, total_ops, pos, idx, val, oss, ret, history>>

toString_count(w) ==
    /\ pc[w] = "s_count"
    /\ string_count' = string_count + 1
    /\ Goto(w, "s_total")
    /\ UNCHANGED <<run, fields, field_mutexes, read_count,
                   write_count, total_ops, pos, idx, val, i, oss, ret, history>>

toString_totalForgotten(w) ==
    /\ pc[w] = "s_total"
    /\ Goto(w, "s_return")
    /\ UNCHANGED <<run, store, pos, idx, val, i, oss, ret, history>>

toString_total(w) ==
    /\ pc[w] = "s_total"
    /\ total_ops' = total_ops + 1
    /\ Goto(w, "s_return")
    /\ UNCHANGED <<run, fields, field_mutexes, read_count,
                   write_count, string_count, pos, idx, val, i, oss, ret, history>>

\* return oss.str(); the caller discards the string
toString_return(w) ==
    /\ pc[w] = "s_return"
    /\ Goto(w, "getline")
    /\ i' = [i EXCEPT ![w] = 0]
    /\ oss' = [oss EXCEPT ![w] = ""]
    /\ hist' = [hist EXCEPT ![w] = {}]
    /\ UNCHANGED <<run, store, pos, idx, val, ret,
                   written, lastw, fresh>>

\* ---- runThread: one thread of main ----
runThread(w) ==
    \/ executeFile(w)
    \/ readField_lock(w)
    \/ readField_count(w)
    \/ readField_total(w)
    \/ readField_get(w)
    \/ readField_unlock(w)
    \/ writeField_lock(w)
    \/ writeField_count(w)
    \/ writeField_total(w)
    \/ writeField_set(w)
    \/ writeField_unlock(w)
    \/ toString_loop(w)
    \/ toString_get(w)
    \/ toString_unlock(w)
    \/ toString_count(w)
    \/ toString_total(w)
    \/ toString_return(w)

\* ---- void printStats(), called by main after the joins ----
\* size_t ops = total_ops.load(); if (ops == 0) ops = 1;
printStats_opsUnguarded(t) == t
printStats_ops(t) == IF t = 0 THEN 1 ELSE t

\* a percentage 100.0 * count / ops is kept as its numerator 100 * count
\* over the denominator ops (report.ops)
main_printStats ==
    /\ nthreads >= 1
    /\ \A w \in Threads : pc[w] = "done"
    /\ ~report.printed
    /\ report' = [printed |-> TRUE,
                  ops |-> printStats_ops(total_ops),
                  read |-> [x \in Indices |-> 100 * read_count[x]],
                  write |-> [x \in Indices |-> 100 * write_count[x]],
                  string |-> 100 * string_count]
    /\ UNCHANGED <<nfields, nthreads, file, fin_open, oob, gen, store, locals, history>>

Next ==
    \/ \E w \in Threads : runThread(w)
    \/ main_printStats

Spec == Init /\ [][Next]_vars

\* ---- positions of a thread, read off pc alone ----
InRead(w, x) == pc[w] \in {"r_count", "r_total", "r_get", "r_unlock"} /\ idx[w] = x
InWrite(w, x) == pc[w] \in {"w_count", "w_total", "w_set", "w_unlock"} /\ idx[w] = x
InStringStep(w, x) == pc[w] \in {"s_get", "s_unlock"} /\ i[w] = x
InCall(w) == pc[w] \notin {"getline", "done"}
AllDone == \A w \in Threads : pc[w] = "done"

\* C1: while a thread is inside writeField(x, _) past its lock, no other
\* thread is inside readField(x), writeField(x, _) or the field-x step of
\* operator std::string; and a thread that reads fields[x] has shared
\* ownership of field_mutexes[x], one that assigns it has exclusive ownership.
C1_MutualExclusion ==
    /\ \A w \in Threads : \A x \in Indices :
          InWrite(w, x) =>
              \A u \in Threads \ {w} :
                  ~InRead(u, x) /\ ~InWrite(u, x) /\ ~InStringStep(u, x)
    /\ \A w \in Threads :
          /\ pc[w] = "r_get" => w \in field_mutexes[idx[w]].shared
          /\ pc[w] = "s_get" => w \in field_mutexes[i[w]].shared
          /\ pc[w] = "w_set" => field_mutexes[idx[w]].excl = w

\* a writer is about to store into field x while a reader and a second
\* writer of the same field wait for its lock
C1_Witness ==
    \E w, u, t \in Threads :
        /\ pc[w] = "w_set"
        /\ pc[u] = "r_lock" /\ idx[u] = idx[w]
        /\ pc[t] = "w_lock" /\ idx[t] = idx[w]

\* C2: no state in which some thread has not finished its file and no
\* thread can take a step.
C2_NoDeadlock == (\E w \in Threads : pc[w] # "done") => ENABLED Next

\* a thread inside operator std::string owns a field's lock and a writer of
\* that field is blocked on it
C2_Witness ==
    \E w, u \in Threads :
        /\ pc[w] = "s_get" /\ w \in field_mutexes[i[w]].shared
        /\ pc[u] = "w_lock" /\ idx[u] = i[w]
        /\ ~ENABLED runThread(u)

\* the text operator std::string produces for the field vector f
RECURSIVE RenderFrom(_, _)
RenderFrom(f, x) ==
    IF x >= nfields THEN ""
    ELSE ToString(f[x]) \o (IF x # nfields - 1 THEN ", " ELSE "")
            \o RenderFrom(f, x + 1)
Render(f) == RenderFrom(f, 0)

\* C3: the string a call of operator std::string returns is the text of the
\* whole field vector as it stood at one instant between the call's start
\* and its return.
C3_SnapshotConsistent ==
    \A w \in Threads :
        pc[w] = "s_return" => \E f \in hist[w] : oss[w] = Render(f)

\* C4: once no writeField(x, _) is in progress, fields[x] is one of the
\* values passed to the writeField(x, _) calls that stored (0 if none did),
\* and the value readField(x) is about to return is 0 or one of those values.
C4_WritesLinearizable ==
    /\ \A x \in Indices :
          (\A u \in Threads : ~InWrite(u, x)) =>
              fields[x] \in (IF written[x] = {} THEN {0} ELSE written[x])
    /\ \A w \in Threads :
          pc[w] = "r_unlock" => ret[w] \in {0} \cup written[idx[w]]

\* different values have been stored into one field by writes that have all
\* returned, and a thread is about to return one of them from readField
C4_Witness ==
    \E x \in Indices : \E w \in Threads :
        /\ Cardinality(written[x]) = 2
        /\ \A u \in Threads : ~InWrite(u, x)
        /\ pc[w] = "r_unlock" /\ idx[w] = x /\ ret[w] \in written[x]
        /\ nthreads >= 2

RECURSIVE SumUpTo(_, _)
SumUpTo(c, n) == IF n = 0 THEN 0 ELSE c[n - 1] + SumUpTo(c, n - 1)
Sum(c) == SumUpTo(c, nfields)

\* C5: when no operation is in flight, the read counters, the write counters
\* and string_count add up to total_ops.
C5_CounterConservation ==
    (\A w \in Threads : ~InCall(w)) =>
        Sum(read_count) + Sum(write_count) + string_count = total_ops

\* between two lines of every thread, after reads, writes and string
\* requests by more than one thread
C5_Witness ==
    /\ \A w \in Threads : ~InCall(w)
    /\ \E w \in Threads : pc[w] = "getline" /\ pos[w] <= Len(file)
    /\ nthreads >= 2
    /\ Sum(read_count) >= 1 /\ Sum(write_count) >= 1 /\ string_count >= 2

\* number of lines of the file with command c and index x
CountLines(c, x) ==
    Cardinality({k \in 1..Len(file) : file[k].cmd = c /\ file[k].idx = x})

\* C6: after all threads have replayed the file, every counter is the
\* number of threads times the number of its lines in the file.
C6_NoLostUpdates ==
    AllDone =>
        /\ \A x \in Indices :
              /\ read_count[x] = nthreads * CountLines("read", x)
              /\ write_count[x] = nthreads * CountLines("write", x)
        /\ string_count = nthreads * CountLines("string", 0)
        /\ total_ops = nthreads * Cardinality({k \in 1..Len(file) :
                                      file[k].cmd \in {"read", "write", "string"}})

\* three threads have replayed a file with a read and a write of one field
C6_Witness ==
    /\ AllDone /\ nthreads = 3 /\ total_ops = 6
    /\ \E x \in Indices : read_count[x] = 3 /\ write_count[x] = 3

\* C7: a readField(x) that started after a writeField(x, v) had returned,
\* with no other store into field x since that write's, returns v.
C7_ReadAfterWrite ==
    \A w \in Threads :
        (pc[w] = "r_unlock" /\ fresh[w]) => ret[w] = lastw[idx[w]]

\* a thread is about to return, from a field other than field 0, the value
\* another value was overwritten with before the read started
C7_Witness ==
    \E w \in Threads :
        /\ pc[w] = "r_unlock" /\ fresh[w] /\ idx[w] # 0
        /\ Cardinality(written[idx[w]]) = 2
        /\ ret[w] = lastw[idx[w]]

Holds(u, x) == field_mutexes[x].excl = u \/ u \in field_mutexes[x].shared

\* C8: a thread waiting to lock field x in readField or writeField can
\* proceed whenever nobody owns field_mutexes[x], whatever the other fields'
\* locks are.
C8_DisjointIndependence ==
    \A w \in Threads :
        (pc[w] \in {"r_lock", "w_lock"} /\ field_mutexes[idx[w]] = Unlocked)
            => ENABLED runThread(w)

\* a writer can lock its free field while another thread owns another
\* field exclusively
C8_Witness ==
    \E w, u \in Threads :
        /\ pc[w] = "w_lock" /\ field_mutexes[idx[w]] = Unlocked
        /\ InWrite(u, idx[u]) /\ idx[u] # idx[w]
        /\ field_mutexes[idx[u]].excl = u
        /\ ENABLED runThread(w)

\* C9: a thread acquiring shared ownership of a field's lock can proceed
\* when no thread owns it exclusively, a thread acquiring exclusive ownership
\* when no thread owns it at all, and every other step of a thread that has
\* not finished can always be taken.
C9_BlocksOnlyOnIncompatible ==
    \A w \in Threads :
        CASE pc[w] = "r_lock" ->
                 field_mutexes[idx[w]].excl = 0 => ENABLED runThread(w)
          [] pc[w] = "s_loop" /\ i[w] < nfields ->
                 field_mutexes[i[w]].excl = 0 => ENABLED runThread(w)
          [] pc[w] = "w_lock" ->
                 field_mutexes[idx[w]] = Unlocked => ENABLED runThread(w)
          [] pc[w] = "done" -> TRUE
          [] OTHER -> ENABLED runThread(w)

\* readField can lock a field that a reader and operator std::string
\* already own shared
C9_Witness ==
    \E w, u, t \in Threads :
        /\ pc[w] = "r_lock"
        /\ InRead(u, idx[w]) /\ InStringStep(t, idx[w])
        /\ field_mutexes[idx[w]].shared = {u, t}
        /\ ENABLED runThread(w)

\* ---- fair scheduling of the threads ----
\* a thread that can run is eventually run
FairInit == Init /\ Len(file) <= MaxFairLen
FairSpec == FairInit /\ [][Next]_vars /\ WF_vars(Next)

\* C10: every thread eventually finishes its file, with every lock released.
C10_RunCompletes ==
    <>(AllDone /\ \A x \in Indices : field_mutexes[x] = Unlocked)

\* three threads have finished a file with a write and a string request
C10_Witness ==
    /\ AllDone /\ nthreads = 3
    /\ string_count = 3 /\ Sum(write_count) = 3
    /\ \A x \in Indices : field_mutexes[x] = Unlocked

\* ---- workload files with malformed and out-of-range lines ----
MaxExecThreads == 2     \* such files are replayed by 1..MaxExecThreads threads
MaxExecWork == 2        \* threads * lines of such a run is at most MaxExecWork

\* read / write lines whose index or value token is missing or no number
MalformedLines(n) ==
    {Tokens("read", t, 0, "missing", 0) : t \in {"missing", "text"}}
        \cup {Tokens("write", t, 0, "missing", 0) : t \in {"missing", "text"}}
        \cup {Tokens("write", "num", x, t, 0) :
                  x \in 0..(n - 1), t \in {"missing", "text"}}

\* read / write lines whose index is a number outside 0..n-1
OutOfRangeLines(n) ==
    {Line("read", x, 0) : x \in {-1, n}}
        \cup {Line("write", x, v) : x \in {-1, n}, v \in 1..MaxVal}

ExecFiles(n, len) ==
    UNION {[1..k -> Lines(n) \cup MalformedLines(n) \cup OutOfRangeLines(n)] :
               k \in 0..len}

ExecInit ==
    /\ nfields \in 1..MaxFields
    /\ nthreads \in 1..MaxExecThreads
    /\ file \in ExecFiles(nfields, MaxExecWork)
    /\ nthreads * Len(file) <= MaxExecWork
    /\ fin_open \in BOOLEAN
    /\ gen = GenIdle
    /\ Constructed

\* the process is killed (a segmentation fault): every thread stops
Crash == pc' = [u \in Threads |-> "crashed"]

\* readField(index) with index >= fields.size(): field_mutexes[index],
\* read_count[index] and fields[index] lie outside the vectors, the behaviour
\* is undefined.  Either the process is killed, or the call goes through on
\* whatever storage lies there and counts itself in total_ops.  (A call that
\* hangs on the storage it takes for a lock is the thread not stepping.)
readField_outOfRange(w) ==
    /\ pc[w] = "r_oob"
    /\ \/ /\ Crash
          /\ UNCHANGED <<total_ops, oob, idx>>
       \/ /\ oob' = TRUE
          /\ total_ops' = total_ops + 1
          /\ Goto(w, "getline")
          /\ idx' = [idx EXCEPT ![w] = 0]
    /\ UNCHANGED <<nfields, nthreads, file, fin_open, report, gen, fields,
                   field_mutexes, read_count, write_count, string_count,
                   pos, val, i, oss, ret, history>>

\* writeField(index, value) with index >= fields.size(), likewise
writeField_outOfRange(w) ==
    /\ pc[w] = "w_oob"
    /\ \/ /\ Crash
          /\ UNCHANGED <<total_ops, oob, idx, val>>
       \/ /\ oob' = TRUE
          /\ total_ops' = total_ops + 1
          /\ Goto(w, "getline")
          /\ idx' = [idx EXCEPT ![w] = 0]
          /\ val' = [val EXCEPT ![w] = 0]
    /\ UNCHANGED <<nfields, nthreads, file, fin_open, report, gen, fields,
                   field_mutexes, read_count, write_count, string_count,
                   pos, i, oss, ret, history>>

ExecNext ==
    \/ \E w \in Threads : runThread(w)
    \/ \E w \in Threads : readField_outOfRange(w)
    \/ \E w \in Threads : writeField_outOfRange(w)
    \/ main_printStats

ExecSpec == ExecInit /\ [][ExecNext]_vars

Malformed(line) ==
    \/ line.cmd \notin {"read", "write", "string"}
    \/ line.cmd = "read" /\ line.it # "num"
    \/ line.cmd = "write" /\ (line.it # "num" \/ line.vt # "num")

OutOfRange(line) ==
    line.cmd \in {"read", "write"} /\ line.it = "num" /\ line.idx \notin Indices

Untouched ==
    /\ fields = [x \in Indices |-> 0]
    /\ read_count = [x \in Indices |-> 0]
    /\ write_count = [x \in Indices |-> 0]
    /\ string_count = 0
    /\ total_ops = 0

\* C11: replaying a file of malformed and unrecognized lines only leaves
\* every field and every counter as constructed.
C11_MalformedSkipped ==
    (\A k \in 1..Len(file) : Malformed(file[k])) => Untouched

\* the line a thread has read last
LastLine(w) == file[pos[w] - 1]

\* C12: a readField / writeField call with an index outside 0..N-1 ends in
\* an abort, never accesses storage outside the vectors, and leaves every
\* field and counter unchanged.
C12_OutOfRangeFailsFast ==
    /\ ~oob
    /\ \A w \in Threads :
          (pos[w] > 1 /\ OutOfRange(LastLine(w)) /\ pc[w] \notin {"r_oob", "w_oob"})
              => pc[w] = "crashed"
    /\ (\A k \in 1..Len(file) : OutOfRange(file[k])) => Untouched

\* C13: executeFile on a file that cannot be opened does not end like the
\* replay of an empty file (a thread that returns normally), and applies no
\* operation.
C13_OpenFailureFails ==
    ~fin_open => (Untouched /\ \A w \in Threads : pc[w] # "done")

MaxSeqLen == 4      \* files of 0..MaxSeqLen lines
MaxSeqVal == 3      \* write lines carry a value in 1..MaxSeqVal

SeqLines(n) ==
    {Line("read", x, 0) : x \in 0..(n - 1)}
        \cup {Line("write", x, v) : x \in 0..(n - 1), v \in 1..MaxSeqVal}
        \cup {Line("string", 0, 0), Line("other", 0, 0)}

SeqInit ==
    /\ nfields \in 0..MaxFields
    /\ nthreads = 1
    /\ file \in UNION {[1..k -> SeqLines(nfields)] : k \in 0..MaxSeqLen}
    /\ fin_open = TRUE
    /\ gen = GenIdle
    /\ Constructed

SeqSpec == SeqInit /\ [][Next]_vars

\* the values of f in increasing index order, separated by ", "
RECURSIVE JoinUpTo(_, _)
JoinUpTo(f, n) ==
    IF n = 0 THEN ""
    ELSE IF n = 1 THEN ToString(f[0])
    ELSE JoinUpTo(f, n - 1) \o ", " \o ToString(f[n - 1])

\* the scenario of section 8
Scenario123 ==
    <<Line("write", 0, 1), Line("write", 1, 2), Line("write", 2, 3),
      Line("string", 0, 0)>>

\* C15: with no concurrent writer, operator std::string returns the current
\* values of all fields in index order separated by ", " with no trailing
\* separator, and the fields are as they were when the call started; on 3
\* fields, write 0 1, write 1 2, write 2 3, string yields "1, 2, 3".
C15_SnapshotRendering ==
    \A w \in Threads :
        pc[w] = "s_return" =>
            /\ oss[w] = JoinUpTo(fields, nfields)
            /\ hist[w] = {fields}
            /\ (nfields = 3 /\ file = Scenario123) => oss[w] = "1, 2, 3"

\* the scenario's string request is about to return
C15_Witness ==
    /\ nfields = 3 /\ file = Scenario123
    /\ pc[1] = "s_return" /\ oss[1] = "1, 2, 3"
    /\ fields = (0 :> 1 @@ 1 :> 2 @@ 2 :> 3)

\* ---- void generateFile(filename, num_ops, percents) ----
MaxGenOps == 40     \* generateFile is run for num_ops in 0..MaxGenOps, and
                    \* for 100, 10000 and main's num_ops

\* const int num_ops = 100000; (main)
NumOps == 100000

\* OpsPercent in hundredths of a percent: 14.29 is 1429
percents_a == <<1000, 1000, 5000, 1000, 500, 500, 1000>>
percents_b == <<1429, 1429, 1429, 1429, 1429, 1429, 1429>>
percents_c == <<4000, 500, 3000, 500, 1000, 500, 500>>
\* seven equal percentages that sum to 99.96
percents_below == <<1428, 1428, 1428, 1428, 1428, 1428, 1428>>

GenNumOps == (0..MaxGenOps) \cup {100, 10000, NumOps}
GenPercents == {percents_a, percents_b, percents_c, percents_below}

\* static_cast<int>(num_ops * percent / 100.0), percent given in hundredths.
\* For every num_ops of GenNumOps and percentage of GenPercents the double
\* computation truncates to this quotient.
Truncate(n, h) == (n * h) \div 10000

Zero7 == <<0, 0, 0, 0, 0, 0, 0>>

\* std::vector<std::string> ops is kept as the number of its entries of each
\* kind: 1 "read 0", 2 "write 0 1", 3 "read 1", 4 "write 1 1", 5 "read 2",
\* 6 "write 2 1", 7 "string"
Size(ops) == ops[1] + ops[2] + ops[3] + ops[4] + ops[5] + ops[6] + ops[7]

GenInit ==
    /\ nfields = 0
    /\ nthreads = 0
    /\ file = <<>>
    /\ fin_open = TRUE
    /\ \E n \in GenNumOps : \E p \in GenPercents :
          gen = [stage |-> "start", num_ops |-> n, percents |-> p,
                 nums |-> Zero7, ops |-> Zero7, lines |-> 0]
    /\ Constructed

GenUnchanged == UNCHANGED <<nfields, nthreads, file, fin_open, oob, report,
                            store, locals, history>>

\* int num_read1 = ...; ... int num_string = ...;
generateFile_nums ==
    /\ gen.stage = "start"
    /\ gen' = [gen EXCEPT !.stage = "nums",
                          !.nums = [k \in 1..7 |-> Truncate(gen.num_ops, gen.percents[k])]]
    /\ GenUnchanged

\* the seven for loops: num_... entries of each kind
generateFile_push ==
    /\ gen.stage = "nums"
    /\ gen' = [gen EXCEPT !.stage = "pushed",
                          !.ops = [k \in 1..7 |-> IF gen.nums[k] > 0 THEN gen.nums[k] ELSE 0]]
    /\ GenUnchanged

\* while ((int)ops.size() < num_ops) ops.push_back("string");
generateFile_pad ==
    /\ gen.stage = "pushed"
    /\ gen' = [gen EXCEPT !.stage = "padded",
                          !.ops[7] = IF Size(gen.ops) < gen.num_ops
                                     THEN @ + (gen.num_ops - Size(gen.ops))
                                     ELSE @]
    /\ GenUnchanged

\* std::shuffle reorders ops; then one line is written per entry
generateFile_write ==
    /\ gen.stage = "padded"
    /\ gen' = [gen EXCEPT !.stage = "written", !.lines = Size(gen.ops)]
    /\ GenUnchanged

GenNext ==
    \/ generateFile_nums
    \/ generateFile_push
    \/ generateFile_pad
    \/ generateFile_write

GenSpec == GenInit /\ [][GenNext]_vars

\* C16: generateFile writes exactly num_ops lines.
C16_GeneratedLength ==
    gen.stage = "written" => gen.lines = gen.num_ops

\* C17: a thread inside operator std::string owns the shared locks of
\* fields 0..i while it is at field i, and of all fields when it increments
\* string_count and total_ops.
C17_SnapshotLockProtocol ==
    \A w \in Threads :
        /\ pc[w] \in {"s_get", "s_unlock"} =>
              \A x \in 0..i[w] : w \in field_mutexes[x].shared
        /\ pc[w] \in {"s_count", "s_total"} =>
              \A x \in Indices : w \in field_mutexes[x].shared

\* the value of the last `write x v` line of the file, 0 if there is none
LastWriteLine(x) ==
    LET ks == {k \in 1..Len(file) : file[k].cmd = "write" /\ file[k].idx = x}
    IN  IF ks = {} THEN 0
        ELSE file[CHOOSE k \in ks : \A j \in ks : j <= k].val

\* C18: after all threads have replayed the same file, every field holds the
\* value of the file's last write line for it, or 0 if there is none.
C18_DeterministicFinalRecord ==
    AllDone => \A x \in Indices : fields[x] = LastWriteLine(x)

\* two threads have replayed a file that writes two values into one field
C18_Witness ==
    /\ AllDone /\ nthreads >= 2
    /\ \E x \in Indices :
          /\ Cardinality(written[x]) = 2
          /\ write_count[x] >= 4
          /\ fields[x] = LastWriteLine(x)

Counted == Sum(read_count) + Sum(write_count) + string_count

\* C19: in every state total_ops is at most the sum of the read counters,
\* the write counters and string_count, and that sum is at most total_ops
\* plus the number of threads inside an operation.
C19_CounterBounds ==
    /\ total_ops <= Counted
    /\ Counted <= total_ops + Cardinality({w \in Threads : InCall(w)})

\* two threads have incremented their operation's counter and not yet
\* total_ops
C19_Witness ==
    /\ Cardinality({w \in Threads : pc[w] \in {"r_total", "w_total", "s_total"}}) = 2
    /\ Counted = total_ops + 2
    /\ total_ops >= 1

\* C20: a step inside readField or operator std::string changes no field; a
\* step inside writeField changes only fields[index], to value, at the store;
\* readField changes only read_count[index] and total_ops, writeField only
\* write_count[index] and total_ops, operator std::string only string_count
\* and total_ops, each by 1 at its increment; the number of fields is fixed.
C20_Frame ==
    [][ /\ nfields' = nfields
        /\ DOMAIN fields' = DOMAIN fields
        /\ \A w \in Threads :
              pc'[w] # pc[w] =>
                /\ pc[w] \in {"r_lock", "r_count", "r_total", "r_get", "r_unlock"} =>
                      /\ fields' = fields
                      /\ write_count' = write_count
                      /\ string_count' = string_count
                      /\ read_count' = IF pc[w] = "r_count"
                                       THEN [read_count EXCEPT ![idx[w]] = @ + 1]
                                       ELSE read_count
                      /\ total_ops' = IF pc[w] = "r_total" THEN total_ops + 1
                                      ELSE total_ops
                /\ pc[w] \in {"w_lock", "w_count", "w_total", "w_set", "w_unlock"} =>
                      /\ fields' = IF pc[w] = "w_set"
                                   THEN [fields EXCEPT ![idx[w]] = val[w]]
                                   ELSE fields
                      /\ read_count' = read_count
                      /\ string_count' = string_count
                      /\ write_count' = IF pc[w] = "w_count"
                                        THEN [write_count EXCEPT ![idx[w]] = @ + 1]
                                        ELSE write_count
                      /\ total_ops' = IF pc[w] = "w_total" THEN total_ops + 1
                                      ELSE total_ops
                /\ pc[w] \in {"s_loop", "s_get", "s_unlock", "s_count", "s_total",
                              "s_return"} =>
                      /\ fields' = fields
                      /\ read_count' = read_count
                      /\ write_count' = write_count
                      /\ string_count' = IF pc[w] = "s_count" THEN string_count + 1
                                         ELSE string_count
                      /\ total_ops' = IF pc[w] = "s_total" THEN total_ops + 1
                                      ELSE total_ops
      ]_vars

\* a write has just stored its value into one field while another field
\* holds a value written before
C20_Witness ==
    \E w \in Threads : \E x \in Indices :
        /\ pc[w] = "w_unlock" /\ x # idx[w]
        /\ fields[idx[w]] = val[w]
        /\ fields[x] # 0 /\ fields[x] # val[w]

====
